---- MODULE Spec2Model ----
(***************************************************************************)
(* Model of src/pycat/zilany2009.py: the Zilany2009 auditory-periphery     *)
(* model class.  The class drives three native stages (run_ihc,            *)
(* run_synapse, run_spike_generator) from run()/_run_anf(), seeds the      *)
(* process-wide numpy generator in __init__ and computes a Greenwood       *)
(* frequency map in set_freq.                                              *)
(*                                                                         *)
(* Frequencies and the Greenwood arithmetic are fixed-point numbers with   *)
(* FxOne units per 1.0 ; log10 and 10** are computed, not assumed to be    *)
(* inverse to each other.                                                  *)
(***************************************************************************)
EXTENDS Integers, Sequences, FiniteSets, TLC

VARIABLES rng, self, frame, calls, results, freq_call

vars == <<rng, self, frame, calls, results, freq_call>>

(***************************************************************************)
(* Bounds of the model                                                     *)
(***************************************************************************)
MaxAnf == 2          \* largest fiber count per type
MaxRuns == 2         \* run() invocations per model instance
RngMod == 4          \* size of the generator's state space
MaxFreqNum == 3      \* largest freq_num of a CF range
FxOne == 16384       \* fixed-point unit: FxOne represents 1.0
TolPerMille == 1     \* tolerance of the range end points, in 1/1000

NoSeed == -1         \* seed=None

Objs == {"A", "B"}

(***************************************************************************)
(* Fixed-point arithmetic standing for the float operations of set_freq    *)
(***************************************************************************)
\* a * b / d rounded to the nearest unit, as a float operation rounds
MulDiv(a, b, d) == (a * b + d \div 2) \div d

RECURSIVE NormDown(_, _)
\* halve m until m < 2*FxOne ; returns <<mantissa, exponent>>
NormDown(m, e) == IF m >= 2 * FxOne THEN NormDown(m \div 2, e + 1) ELSE <<m, e>>

RECURSIVE NormUp(_, _)
\* double m until m >= FxOne
NormUp(m, e) == IF m < FxOne THEN NormUp(m * 2, e - 1) ELSE <<m, e>>

RECURSIVE Log2Frac(_, _, _)
\* fraction bits of log2(m / FxOne), m in [FxOne, 2*FxOne), by repeated squaring
Log2Frac(m, w, acc) ==
    IF w = 0 THEN acc
    ELSE LET sq == MulDiv(m, m, FxOne)
         IN  IF sq >= 2 * FxOne
             THEN Log2Frac(sq \div 2, w \div 2, acc + w)
             ELSE Log2Frac(sq, w \div 2, acc)

Log2Fx(v) ==
    LET n == IF v >= FxOne THEN NormDown(v, 0) ELSE NormUp(v, 0)
    IN  n[2] * FxOne + Log2Frac(n[1], FxOne \div 2, 0)

\* np.log10 ; log10(2) = 1233/4096
Log10Fx(v) == MulDiv(Log2Fx(v), 1233, 4096)

RECURSIVE ExpSeries(_, _, _)
\* Horner evaluation of exp(t) = 1 + t(1 + t/2(1 + t/3( ... )))
ExpSeries(t, n, acc) ==
    IF n = 0 THEN acc
    ELSE ExpSeries(t, n - 1, FxOne + MulDiv(t, acc, n * FxOne))

RECURSIVE Shift(_, _)
Shift(m, e) == IF e = 0 THEN m
               ELSE IF e > 0 THEN Shift(m * 2, e - 1)
               ELSE Shift(m \div 2, e + 1)

\* 2 ** (y / FxOne) ; ln(2) = 22713/32768
Pow2Fx(y) ==
    LET ip == y \div FxOne
        fp == y % FxOne
        t  == MulDiv(fp, 22713, 32768)
    IN  Shift(ExpSeries(t, 7, FxOne), ip)

\* 10 ** z ; log2(10) = 13607/4096
Pow10Fx(z) == Pow2Fx(MulDiv(z, 13607, 4096))

(***************************************************************************)
(* set_freq: the Greenwood map                                             *)
(***************************************************************************)
aA == 456
k_tenths == 8        \* k = 0.8
a_tenths == 21       \* a = 2.1

kFx == (k_tenths * FxOne) \div 10

\* np.log10(freq / aA + k) / a
GreenwoodX(freq) == MulDiv(Log10Fx(MulDiv(freq, FxOne, aA) + kFx), 10, a_tenths)

\* aA * (10 ** (a * x) - k)
GreenwoodF(x) == aA * (Pow10Fx(MulDiv(x, a_tenths, 10)) - kFx)

\* variant: np.linspace(start, stop, num, endpoint=False)
Linspace_noEndpoint(start, stop, num) ==
    [j \in 1..num |-> start + (j - 1) * ((stop - start) \div num)]

\* np.linspace(start, stop, num): num evenly spaced samples, end point included
Linspace(start, stop, num) ==
    IF num = 1 THEN <<start>>
    ELSE LET step == (stop - start) \div (num - 1)
         IN  [j \in 1..num |-> IF j = num THEN stop ELSE start + (j - 1) * step]

\* the value of _freq_map that set_freq assigns for a float / a tuple
FreqMapOf(cf) ==
    IF cf.kind \in {"int", "float"}
    THEN <<cf.lo * FxOne>>
    ELSE LET x_map == Linspace(GreenwoodX(cf.lo), GreenwoodX(cf.hi), cf.num)
         IN  [j \in 1..cf.num |-> GreenwoodF(x_map[j])]

\* the assertion of set_freq, after the int -> float conversion
SetFreqAccepts(cf) == cf.kind \in {"int", "float", "tuple"}

\* arguments of set_freq
FreqHz == {50, 200, 1000, 20000}
CfSingle == [kind : {"int", "float"}, lo : FreqHz, hi : {0}, num : {0}]
CfRange == [kind : {"tuple"}, lo : FreqHz, hi : FreqHz, num : 0..MaxFreqNum]
CfOther == [kind : {"list", "str"}, lo : {1000}, hi : {0}, num : {0}]
CfArgs == CfSingle \cup CfRange \cup CfOther

(***************************************************************************)
(* The process-wide numpy generator                                        *)
(***************************************************************************)
\* np.random.seed(seed): None takes fresh entropy, an integer fixes the state
SeedStates(seed) == IF seed = NoSeed THEN 0..(RngMod - 1) ELSE {seed % RngMod}

\* the state after one stochastic stage call has drawn from the generator
RngNext(r) == (r + 1) % RngMod

(***************************************************************************)
(* The native stages (_pycat), as functions of their arguments and of the  *)
(* generator state they draw from                                          *)
(***************************************************************************)
None == 0            \* id of "no object"

TypeOrder == <<"hsr", "msr", "lsr">>

TypeRank(typ) == CHOOSE t \in 1..3 : TypeOrder[t] = typ

\* outputs of the spike generator: spike times padded with zeros
SpikeTable ==
    << <<>>, <<1, 0>>, <<0, 0>>, <<1, 2, 0>>, <<2, 1>>, <<0, 3, 0, 1>>, <<2, 3>>, <<3>> >>

\* _pycat.run_ihc: deterministic in (signal, cf, fs, cohc, cihc)
RunIhcStage(id, sound, cf, fs, cohc, cihc) ==
    [id |-> id, sound |-> sound, fs |-> fs, cf |-> cf, cohc |-> cohc, cihc |-> cihc]

\* _pycat.run_synapse: draws a noise sequence iff with_ffGn
RunSynapseStage(id, fs, vihc, cf, typ, mode, ffGn, r) ==
    [id |-> id, vihc |-> vihc.id, cf |-> cf, typ |-> typ,
     noise |-> IF ffGn THEN r + 1 ELSE 0]

\* _pycat.run_spike_generator: a random point process driven by synout
RunSpikeGeneratorStage(fs, synout, r) ==
    SpikeTable[((3 * r + 2 * synout.noise + TypeRank(synout.typ)) % Len(SpikeTable)) + 1]

(***************************************************************************)
(* State                                                                   *)
(***************************************************************************)
NoVihc == [id |-> None, sound |-> "", fs |-> 0, cf |-> 0, cohc |-> 0, cihc |-> 0]

NoSynout == [id |-> None, vihc |-> None, cf |-> 0, typ |-> "", noise |-> 0]

NoObj ==
    [exists |-> FALSE, hsr_num |-> 0, msr_num |-> 0, lsr_num |-> 0,
     powerlaw_implnt |-> "", with_ffGn |-> FALSE, cohc |-> 0, cihc |-> 0,
     freq_map |-> <<>>, seed |-> NoSeed, runs |-> 0]

NoFrame ==
    [pc |-> "none", sound |-> "", fs |-> 0, fmap |-> <<>>, i |-> 0, vihc |-> NoVihc,
     t |-> 0, anf_num |-> 0, anf_id |-> 0, synout |-> NoSynout,
     anf_trains |-> <<>>, trains |-> <<>>]

NoCall == [made |-> FALSE, arg |-> [kind |-> "", lo |-> 0, hi |-> 0, num |-> 0],
           before |-> <<>>, raised |-> FALSE]

\* one entry of the call log of a run
Entry(op, cfi, cf, typ, ref, mode, ffGn, cohc, cihc, out) ==
    [op |-> op, cfi |-> cfi, cf |-> cf, typ |-> typ, ref |-> ref, mode |-> mode,
     ffGn |-> ffGn, cohc |-> cohc, cihc |-> cihc, out |-> out]

Init ==
    /\ rng \in 0..(RngMod - 1)
    /\ self = [o \in Objs |-> NoObj]
    /\ frame = [o \in Objs |-> NoFrame]
    /\ calls = [o \in Objs |-> <<>>]
    /\ results = [o \in Objs |-> <<>>]
    /\ freq_call = [o \in Objs |-> NoCall]

(***************************************************************************)
(* __init__ and set_freq                                                   *)
(***************************************************************************)
\* Zilany2009(anf_num, cf, powerlaw_implnt, with_ffGn, seed)
Construct(o, a) ==
    /\ ~self[o].exists
    /\ rng' \in SeedStates(a.seed)
    /\ IF SetFreqAccepts(a.cf)
       THEN /\ self' = [self EXCEPT ![o] =
                   [exists |-> TRUE, hsr_num |-> a.anf_num[1], msr_num |-> a.anf_num[2],
                    lsr_num |-> a.anf_num[3], powerlaw_implnt |-> a.powerlaw_implnt,
                    with_ffGn |-> a.with_ffGn, cohc |-> 1, cihc |-> 1,
                    freq_map |-> FreqMapOf(a.cf), seed |-> a.seed, runs |-> 0]]
            /\ frame' = [frame EXCEPT ![o].pc = "ready"]
            /\ freq_call' = [freq_call EXCEPT ![o] =
                    [made |-> TRUE, arg |-> a.cf, before |-> <<>>, raised |-> FALSE]]
       ELSE UNCHANGED <<self, frame, freq_call>>
    /\ UNCHANGED <<calls, results>>

\* set_freq(cf) on a constructed model
SetFreq(o, cf) ==
    /\ self[o].exists
    /\ LET ok == SetFreqAccepts(cf)
       IN  /\ self' = [self EXCEPT ![o].freq_map = IF ok THEN FreqMapOf(cf) ELSE @]
           /\ freq_call' = [freq_call EXCEPT ![o] =
                   [made |-> TRUE, arg |-> cf, before |-> self[o].freq_map,
                    raised |-> ~ok]]
    /\ UNCHANGED <<rng, frame, calls, results>>

(***************************************************************************)
(* run and _run_anf                                                        *)
(***************************************************************************)
Count(o, t) == IF t = 1 THEN self[o].hsr_num
               ELSE IF t = 2 THEN self[o].msr_num
               ELSE self[o].lsr_num

\* variant: the synapse is run again for every instance, whatever the noise flag
NeedSynapse_always(synout, ffGn) == TRUE

\* variant: the synapse is run for the first instance only
NeedSynapse_onlyNone(synout, ffGn) == synout.id = None

\* the test that guards the synapse call in _run_anf
NeedSynapse(synout, ffGn) == (synout.id = None) \/ ffGn

\* variant: the zero padding is not removed
KeepNonzero_all(spikes) == spikes

\* spikes[spikes != 0]
KeepNonzero(spikes) == SelectSeq(spikes, LAMBDA x : x # 0)

\* spikes * 1000
ToMs(spikes) == [j \in 1..Len(spikes) |-> spikes[j] * 1000]

\* control after the block of fiber type t of the CF at index f.i
AfterType(f) ==
    IF f.t < 3 THEN [f EXCEPT !.pc = "type", !.t = f.t + 1]
    ELSE IF f.i < Len(f.fmap) THEN [f EXCEPT !.pc = "ihc", !.i = f.i + 1, !.t = 0]
    ELSE [f EXCEPT !.pc = "return"]

\* run(fs, sound): trains = SpikeTrains(), first iteration of the CF loop
RunStart(o, fs, sound) ==
    /\ self[o].exists
    /\ frame[o].pc \in {"ready", "done"}
    /\ self[o].runs < MaxRuns
    /\ self' = [self EXCEPT ![o].runs = @ + 1]
    /\ frame' = [frame EXCEPT ![o] =
            [NoFrame EXCEPT !.pc = IF Len(self[o].freq_map) = 0 THEN "return" ELSE "ihc",
                            !.sound = sound, !.fs = fs,
                            !.fmap = self[o].freq_map, !.i = 1]]
    /\ calls' = [calls EXCEPT ![o] = <<>>]
    /\ UNCHANGED <<rng, results, freq_call>>

\* variant: the IHC stage is run for the first CF only and its vihc kept
RunIhc_stale(o) ==
    LET f == frame[o]
    IN  /\ f.pc = "ihc"
        /\ frame' = [frame EXCEPT ![o] =
                [f EXCEPT !.pc = "type", !.t = 1,
                          !.vihc = IF f.vihc.id = None
                                   THEN RunIhcStage(Len(calls[o]) + 1, f.sound, f.fmap[f.i],
                                                    f.fs, self[o].cohc, self[o].cihc)
                                   ELSE f.vihc]]
        /\ calls' = [calls EXCEPT ![o] =
                IF f.vihc.id = None
                THEN Append(@, Entry("ihc", f.i, f.fmap[f.i], "", None, "", FALSE,
                                     self[o].cohc, self[o].cihc, <<>>))
                ELSE @]
        /\ UNCHANGED <<rng, self, results, freq_call>>

\* vihc = _pycat.run_ihc(...)
RunIhc(o) ==
    LET f == frame[o]
        cf == f.fmap[f.i]
        id == Len(calls[o]) + 1
    IN  /\ f.pc = "ihc"
        /\ frame' = [frame EXCEPT ![o] =
                [f EXCEPT !.pc = "type", !.t = 1,
                          !.vihc = RunIhcStage(id, f.sound, cf, f.fs,
                                               self[o].cohc, self[o].cihc)]]
        /\ calls' = [calls EXCEPT ![o] =
                Append(@, Entry("ihc", f.i, cf, "", None, "", FALSE,
                                self[o].cohc, self[o].cihc, <<>>))]
        /\ UNCHANGED <<rng, self, results, freq_call>>

\* if self._X_num > 0: false
RunSkipType(o) ==
    LET f == frame[o]
    IN  /\ f.pc = "type"
        /\ ~(Count(o, f.t) > 0)
        /\ frame' = [frame EXCEPT ![o] = AfterType(f)]
        /\ UNCHANGED <<rng, self, calls, results, freq_call>>

\* if self._X_num > 0: tr = self._run_anf(...) is entered
RunAnfCall(o) ==
    LET f == frame[o]
    IN  /\ f.pc = "type"
        /\ Count(o, f.t) > 0
        /\ frame' = [frame EXCEPT ![o] =
                [f EXCEPT !.pc = "anf_loop", !.anf_num = Count(o, f.t), !.anf_id = 0,
                          !.synout = NoSynout, !.anf_trains = <<>>]]
        /\ UNCHANGED <<rng, self, calls, results, freq_call>>

\* synout = _pycat.run_synapse(...)
AnfSynapse(o) ==
    LET f == frame[o]
        cf == f.fmap[f.i]
        typ == TypeOrder[f.t]
        id == Len(calls[o]) + 1
    IN  /\ f.pc = "anf_loop"
        /\ f.anf_id < f.anf_num
        /\ NeedSynapse(f.synout, self[o].with_ffGn)
        /\ frame' = [frame EXCEPT ![o] =
                [f EXCEPT !.pc = "spike",
                          !.synout = RunSynapseStage(id, f.fs, f.vihc, cf, typ,
                                         self[o].powerlaw_implnt, self[o].with_ffGn, rng)]]
        /\ rng' = IF self[o].with_ffGn THEN RngNext(rng) ELSE rng
        /\ calls' = [calls EXCEPT ![o] =
                Append(@, Entry("syn", f.i, cf, typ, f.vihc.id, self[o].powerlaw_implnt,
                                self[o].with_ffGn, f.vihc.cohc, f.vihc.cihc, <<>>))]
        /\ UNCHANGED <<self, results, freq_call>>

\* spikes = _pycat.run_spike_generator(...); filter, rescale, append
AnfSpike(o) ==
    LET f == frame[o]
        cf == f.fmap[f.i]
        typ == TypeOrder[f.t]
        out == RunSpikeGeneratorStage(f.fs, f.synout, rng)
        spikes == ToMs(KeepNonzero(out))
    IN  /\ \/ f.pc = "spike"
           \/ /\ f.pc = "anf_loop"
              /\ f.anf_id < f.anf_num
              /\ ~NeedSynapse(f.synout, self[o].with_ffGn)
        /\ frame' = [frame EXCEPT ![o] =
                [f EXCEPT !.pc = "anf_loop", !.anf_id = f.anf_id + 1,
                          !.anf_trains = Append(@, [spikes |-> spikes, cf |-> cf,
                                                    typ |-> typ])]]
        /\ rng' = RngNext(rng)
        /\ calls' = [calls EXCEPT ![o] =
                Append(@, Entry("spk", f.i, cf, typ, f.synout.id, "", FALSE, 0, 0, out))]
        /\ UNCHANGED <<self, results, freq_call>>

\* variant: trains = tr instead of trains.extend(tr)
AnfReturn_assign(o) ==
    LET f == frame[o]
    IN  /\ f.pc = "anf_loop"
        /\ ~(f.anf_id < f.anf_num)
        /\ frame' = [frame EXCEPT ![o] = AfterType([f EXCEPT !.trains = f.anf_trains])]
        /\ UNCHANGED <<rng, self, calls, results, freq_call>>

\* return anf_trains; trains.extend(tr)
AnfReturn(o) ==
    LET f == frame[o]
    IN  /\ f.pc = "anf_loop"
        /\ ~(f.anf_id < f.anf_num)
        /\ frame' = [frame EXCEPT ![o] =
                AfterType([f EXCEPT !.trains = f.trains \o f.anf_trains])]
        /\ UNCHANGED <<rng, self, calls, results, freq_call>>

\* return trains
RunReturn(o) ==
    LET f == frame[o]
    IN  /\ f.pc = "return"
        /\ frame' = [frame EXCEPT ![o].pc = "done"]
        /\ results' = [results EXCEPT ![o] = Append(@, [ok |-> TRUE, trains |-> f.trains])]
        /\ UNCHANGED <<rng, self, calls, freq_call>>

\* a stage call raises: run() has no handler, the exception leaves run()
StageRaise(o) ==
    LET f == frame[o]
    IN  /\ \/ f.pc \in {"ihc", "spike"}
           \/ /\ f.pc = "anf_loop"
              /\ f.anf_id < f.anf_num
        /\ frame' = [frame EXCEPT ![o].pc = "raised"]
        /\ results' = [results EXCEPT ![o] = Append(@, [ok |-> FALSE, trains |-> <<>>])]
        /\ UNCHANGED <<rng, self, calls, freq_call>>

(***************************************************************************)
(* Specifications                                                          *)
(***************************************************************************)
Seeds == {NoSeed, 1}

AnfNums == (0..MaxAnf) \X (0..MaxAnf) \X (0..MaxAnf)

Modes == {"actual", "approx", "bogus"}

CfOf(kind, lo, hi, num) == [kind |-> kind, lo |-> lo, hi |-> hi, num |-> num]

\* constructor arguments of the single-model specification
DefaultAnf == <<1, 1, 1>>

\* constructor arguments of the single-model specification: every population
\* on a two-CF range with the default mode, and the default population on the
\* default CF with every mode
CtorArgs ==
    [anf_num : AnfNums, cf : {CfOf("tuple", 200, 20000, 2)},
     powerlaw_implnt : {"actual"}, with_ffGn : BOOLEAN, seed : Seeds]
    \cup
    [anf_num : {DefaultAnf}, cf : {CfOf("int", 1000, 0, 0), CfOf("list", 1000, 0, 0)},
     powerlaw_implnt : Modes, with_ffGn : BOOLEAN, seed : Seeds]

Step(o) ==
    \/ RunStart(o, 100000, "tone")
    \/ RunIhc(o)
    \/ RunSkipType(o)
    \/ RunAnfCall(o)
    \/ AnfSynapse(o)
    \/ AnfSpike(o)
    \/ AnfReturn(o)
    \/ RunReturn(o)
    \/ StageRaise(o)

Next ==
    \/ \E a \in CtorArgs : Construct("A", a)
    \/ Step("A")

Spec == Init /\ [][Next]_vars

\* two model instances whose constructions and runs interleave
CtorArgsTwo ==
    [anf_num : {<<1, 0, 0>>}, cf : {CfOf("int", 1000, 0, 0)},
     powerlaw_implnt : {"actual"}, with_ffGn : BOOLEAN, seed : Seeds]

NextTwo ==
    \E o \in Objs :
        \/ \E a \in CtorArgsTwo : Construct(o, a)
        \/ Step(o)

SpecTwo == Init /\ [][NextTwo]_vars

\* one model instance and its set_freq calls
CtorArgsFreq ==
    [anf_num : {DefaultAnf}, cf : {CfOf("int", 1000, 0, 0), CfOf("list", 1000, 0, 0)},
     powerlaw_implnt : {"actual"}, with_ffGn : {TRUE}, seed : {1}]

NextFreq ==
    \/ \E a \in CtorArgsFreq : Construct("A", a)
    \/ \E cf \in CfArgs : SetFreq("A", cf)

SpecFreq == Init /\ [][NextFreq]_vars

(***************************************************************************)
(* Vocabulary of the properties                                            *)
(***************************************************************************)
\* positions of the calls of one stage in the call log of o's current run
CallsOf(o, op) == {j \in 1..Len(calls[o]) : calls[o][j].op = op}

Finished(o) == frame[o].pc = "done"

\* what the last run() of o handed to its caller
Returned(o) == results[o][Len(results[o])].trains

TotalAnf(o) == self[o].hsr_num + self[o].msr_num + self[o].lsr_num

\* a sequence of numbers is strictly increasing
StrictlyIncreasing(q) == \A i, j \in 1..Len(q) : i < j => q[i] < q[j]

\* the position in raw of its n-th nonzero entry
NthNonzero(raw, n) ==
    CHOOSE j \in 1..Len(raw) :
        /\ raw[j] # 0
        /\ Cardinality({h \in 1..j : raw[h] # 0}) = n

\* the position in the call log of the n-th spike-generator call
NthSpikeCall(o, n) ==
    CHOOSE j \in CallsOf(o, "spk") :
        Cardinality({h \in CallsOf(o, "spk") : h <= j}) = n

(***************************************************************************)
(* C1: with noise disabled, run() invokes the synapse exactly once for     *)
(* every (CF, fiber type) group whose count is > 0, every spike-generator  *)
(* call of the group receives that synout, and no synout reaches another   *)
(* fiber type or CF.                                                       *)
(***************************************************************************)
C1_SynoutSharedPerGroup ==
    \A o \in Objs : (self[o].exists /\ ~self[o].with_ffGn) =>
        LET log == calls[o]
        IN  /\ \A j1, j2 \in CallsOf(o, "syn") :
                   (log[j1].cfi = log[j2].cfi /\ log[j1].typ = log[j2].typ) => j1 = j2
            /\ \A j \in CallsOf(o, "spk") :
                   /\ log[j].ref \in CallsOf(o, "syn")
                   /\ log[j].ref < j
                   /\ log[log[j].ref].cfi = log[j].cfi
                   /\ log[log[j].ref].typ = log[j].typ
            /\ Finished(o) =>
                   \A c \in 1..Len(frame[o].fmap), t \in 1..3 :
                       Count(o, t) > 0 =>
                           Cardinality({j \in CallsOf(o, "syn") :
                               log[j].cfi = c /\ log[j].typ = TypeOrder[t]}) = 1

C1_Witness ==
    /\ Finished("A")
    /\ ~self["A"].with_ffGn
    /\ self["A"].hsr_num = 2
    /\ self["A"].lsr_num = 2
    /\ Len(frame["A"].fmap) = 2
    /\ \E j1, j2 \in CallsOf("A", "spk") :
           j1 # j2 /\ calls["A"][j1].ref = calls["A"][j2].ref

(***************************************************************************)
(* C2: with noise enabled, the synapse is invoked once per fiber instance, *)
(* immediately before that instance's spike-generator call, which receives *)
(* the synout of its own instance; synapse calls and spike trains are      *)
(* equal in number.                                                        *)
(***************************************************************************)
C2_SynoutPerInstance ==
    \A o \in Objs : (self[o].exists /\ self[o].with_ffGn) =>
        LET log == calls[o]
        IN  /\ \A j \in CallsOf(o, "spk") :
                   /\ j > 1
                   /\ log[j - 1].op = "syn"
                   /\ log[j].ref = j - 1
                   /\ log[j - 1].cfi = log[j].cfi
                   /\ log[j - 1].typ = log[j].typ
            /\ \A j \in CallsOf(o, "syn") : j < Len(log) => log[j + 1].op = "spk"
            /\ Finished(o) =>
                   /\ Cardinality(CallsOf(o, "syn")) = Len(Returned(o))
                   /\ Cardinality(CallsOf(o, "spk")) = Len(Returned(o))

C2_Witness ==
    /\ Finished("A")
    /\ self["A"].with_ffGn
    /\ self["A"].msr_num = 2
    /\ Cardinality(CallsOf("A", "syn")) >= 4
    /\ Len(Returned("A")) = Cardinality(CallsOf("A", "syn"))

(***************************************************************************)
(* C3: run() invokes the IHC stage exactly once per CF of the frequency    *)
(* map, before any synapse call of that CF, and every synapse call of a CF *)
(* receives the vihc of that CF's IHC call, made with the model's cohc and *)
(* cihc.                                                                   *)
(***************************************************************************)
C3_OneIhcPerCf ==
    \A o \in Objs : self[o].exists =>
        LET log == calls[o]
        IN  /\ \A j1, j2 \in CallsOf(o, "ihc") : log[j1].cfi = log[j2].cfi => j1 = j2
            /\ \A j \in CallsOf(o, "ihc") :
                   /\ log[j].cf = frame[o].fmap[log[j].cfi]
                   /\ log[j].cohc = self[o].cohc
                   /\ log[j].cihc = self[o].cihc
            /\ \A j \in CallsOf(o, "syn") :
                   /\ log[j].ref \in CallsOf(o, "ihc")
                   /\ log[j].ref < j
                   /\ log[log[j].ref].cfi = log[j].cfi
                   /\ log[log[j].ref].cf = log[j].cf
                   /\ log[j].cohc = self[o].cohc
                   /\ log[j].cihc = self[o].cihc
            /\ Finished(o) =>
                   \A c \in 1..Len(frame[o].fmap) :
                       Cardinality({j \in CallsOf(o, "ihc") : log[j].cfi = c}) = 1

C3_Witness ==
    /\ Finished("A")
    /\ Len(frame["A"].fmap) = 2
    /\ Cardinality(CallsOf("A", "ihc")) = 2
    /\ \E j \in CallsOf("A", "syn") : calls["A"][j].cfi = 2 /\ calls["A"][j].typ = "lsr"
    /\ \E j \in CallsOf("A", "syn") : calls["A"][j].cfi = 1 /\ calls["A"][j].typ = "hsr"

(***************************************************************************)
(* C4: for counts (h, m, l) >= 0 and a map of n CFs, run() returns exactly *)
(* n*(h+m+l) trains, ordered by CF in map order and, within a CF, h 'hsr'  *)
(* then m 'msr' then l 'lsr' trains, each tagged with its CF and type; a   *)
(* type whose count is 0 causes no synapse or spike-generator call.        *)
(***************************************************************************)
C4_TrainCountAndOrder ==
    \A o \in Objs : self[o].exists =>
        LET h == self[o].hsr_num
            m == self[o].msr_num
            tot == TotalAnf(o)
            fmap == frame[o].fmap
        IN  /\ \A j \in CallsOf(o, "syn") \cup CallsOf(o, "spk") :
                   \A t \in 1..3 : calls[o][j].typ = TypeOrder[t] => Count(o, t) > 0
            /\ Finished(o) =>
                   /\ Len(Returned(o)) = Len(fmap) * tot
                   /\ \A p \in 1..Len(Returned(o)) :
                          LET q == (p - 1) % tot
                          IN  /\ Returned(o)[p].cf = fmap[((p - 1) \div tot) + 1]
                              /\ Returned(o)[p].typ =
                                     IF q < h THEN "hsr"
                                     ELSE IF q < h + m THEN "msr" ELSE "lsr"

C4_Witness ==
    /\ Finished("A")
    /\ self["A"].hsr_num = 2
    /\ self["A"].msr_num = 0
    /\ self["A"].lsr_num = 1
    /\ Len(frame["A"].fmap) = 2
    /\ Len(Returned("A")) = 6

(***************************************************************************)
(* C10: each returned train is exactly the nonzero entries of the spike    *)
(* generator's output of that instance, in order, times 1000; it is        *)
(* strictly increasing when the nonzero output is; an all-zero or empty    *)
(* output gives an empty train that is still appended; no train holds 0.   *)
(***************************************************************************)
C10_TrainIsNonzeroOutputInMs ==
    \A o \in Objs : Finished(o) =>
        /\ Len(Returned(o)) = Cardinality(CallsOf(o, "spk"))
        /\ \A p \in 1..Len(Returned(o)) :
               LET raw == calls[o][NthSpikeCall(o, p)].out
                   train == Returned(o)[p].spikes
                   nz == {j \in 1..Len(raw) : raw[j] # 0}
               IN  /\ Len(train) = Cardinality(nz)
                   /\ \A n \in 1..Len(train) : train[n] = 1000 * raw[NthNonzero(raw, n)]
                   /\ \A n \in 1..Len(train) : train[n] # 0
                   /\ (\A i, j \in nz : i < j => raw[i] < raw[j]) => StrictlyIncreasing(train)

C10_Witness ==
    /\ Finished("A")
    /\ \E p \in 1..Len(Returned("A")) :
           /\ Returned("A")[p].spikes = <<>>
           /\ calls["A"][NthSpikeCall("A", p)].out = <<0, 0>>
    /\ \E p \in 1..Len(Returned("A")) :
           /\ Returned("A")[p].spikes = <<3000, 1000>>
           /\ calls["A"][NthSpikeCall("A", p)].out = <<0, 3, 0, 1>>
    /\ \E p \in 1..Len(Returned("A")) : Returned("A")[p].spikes = <<1000, 2000>>

(***************************************************************************)
(* C5: with noise enabled and a fixed seed, any two runs with the same     *)
(* seed, configuration and inputs yield identical spike trains, also two   *)
(* successive run() calls on one model instance.                           *)
(***************************************************************************)
C5_SameSeedSameTrains ==
    \A o \in Objs :
        (/\ self[o].exists
         /\ self[o].with_ffGn
         /\ self[o].seed # NoSeed
         /\ Len(results[o]) >= 2
         /\ results[o][1].ok
         /\ results[o][2].ok)
        => results[o][1].trains = results[o][2].trains

(***************************************************************************)
(* C6: a model instance owns the generator state its stages draw from:     *)
(* while A is constructed and has not finished run(), no construction or   *)
(* step of another instance changes that state.                            *)
(***************************************************************************)
C6_OwnGeneratorState ==
    [][(/\ self["A"].exists
        /\ frame["A"].pc \notin {"done", "raised"}
        /\ self["A"]' = self["A"]
        /\ frame["A"]' = frame["A"])
       => rng' = rng]_vars

(***************************************************************************)
(* C7: the power-law mode passed to every synapse call is one of the       *)
(* recognized modes "exact" and "approx" (a model with another mode never  *)
(* gets as far as running a stage).                                        *)
(***************************************************************************)
C7_ModeRecognized ==
    \A o \in Objs :
        \A j \in CallsOf(o, "syn") : calls[o][j].mode \in {"exact", "approx"}

(***************************************************************************)
(* C8: when a stage fails during run(), the spike trains of the sibling    *)
(* computations, those already finished included, are still delivered to   *)
(* the caller.                                                             *)
(***************************************************************************)
C8_SiblingsDelivered ==
    \A o \in Objs :
        frame[o].pc = "raised" => Len(Returned(o)) >= Cardinality(CallsOf(o, "spk"))

(***************************************************************************)
(* C9: set_freq with (freq_min, freq_max, freq_num), 0 < freq_min <        *)
(* freq_max, freq_num >= 2, sets a strictly increasing map of freq_num     *)
(* values from freq_min to freq_max (within tolerance); with an int or a   *)
(* float it sets a map of that one CF; with any other type the assertion   *)
(* fails and the map is left unchanged.                                    *)
(***************************************************************************)
WithinTolerance(v, hz) ==
    LET d == v - hz * FxOne
        tol == (hz * FxOne * TolPerMille) \div 1000
    IN  -tol <= d /\ d <= tol

C9_SetFreqMap ==
    \A o \in Objs : (self[o].exists /\ freq_call[o].made) =>
        LET arg == freq_call[o].arg
            map == self[o].freq_map
        IN  /\ (arg.kind = "tuple" /\ 0 < arg.lo /\ arg.lo < arg.hi /\ arg.num >= 2) =>
                   /\ ~freq_call[o].raised
                   /\ Len(map) = arg.num
                   /\ StrictlyIncreasing(map)
                   /\ WithinTolerance(map[1], arg.lo)
                   /\ WithinTolerance(map[Len(map)], arg.hi)
            /\ arg.kind \in {"int", "float"} =>
                   /\ ~freq_call[o].raised
                   /\ Len(map) = 1
                   /\ map[1] = arg.lo * FxOne
            /\ arg.kind \notin {"tuple", "int", "float"} =>
                   /\ freq_call[o].raised
                   /\ map = freq_call[o].before

C9_Witness ==
    /\ self["A"].exists
    /\ freq_call["A"].made
    /\ freq_call["A"].arg = CfOf("tuple", 50, 20000, MaxFreqNum)
    /\ freq_call["A"].before # <<>>
    /\ Len(self["A"].freq_map) = MaxFreqNum

====
